---- MODULE Spec2Model ----
(***************************************************************************)
(* Model of the pulser time-correction pipeline of e20009_dalitz:          *)
(*   pad_times                   (src/time_correction_calculator.py)       *)
(*   pulser_results              (src/time_correction_calculator.py)       *)
(*   time_correction_calculator  (src/time_correction_calculator.py)       *)
(*   SpyralWriter_e20009         (src/simulations/sim_utils.py)            *)
(* Each routine has its own specification over the shared variables; the   *)
(* variables of the other routines stay idle.                              *)
(***************************************************************************)
EXTENDS Integers, Sequences, FiniteSets, TLC

VARIABLES
    pc,             \* pad_times: the event's point cloud (rows in file order)
    pos,            \* pad_times: index of the next row of the for loop
    event_results,  \* pad_times: pad -> (time bucket, amplitude, hit)
    point_file,     \* pulser_results: the run's point cloud file in the run-store
    idx,            \* pulser_results: index of the event loop
    run_results,    \* pulser_results: pad -> idx -> (time bucket, amplitude, hit)
    run_pc,         \* pulser_results: "open", "loop" or "done"
    ret,            \* pulser_results: the value returned
    store,          \* time_correction_calculator: run number -> point cloud file
    write_raw,      \* time_correction_calculator: the write_raw argument
    ridx,           \* time_correction_calculator: index of the run loop
    results,        \* time_correction_calculator: pad -> run position -> row
    pad,            \* time_correction_calculator: index of the fit loop
    fit_results,    \* time_correction_calculator: pad -> (slope, intercept)
    fit_calls,      \* the arguments lmfit was called with, per pad
    calib_pc,       \* "runs", "fit", "done" or "raised"
    written,        \* what np.save / np.savetxt put at write_path
    run_number,         \* SpyralWriter_e20009.run_number
    event_number_low,   \* SpyralWriter_e20009.event_number_low
    event_number_high,  \* SpyralWriter_e20009.event_number_high (unset at first)
    files,              \* run number -> the point cloud file written
    writer_pc           \* "writing", or "finished" after the closing call

padVars == <<pc, pos, event_results>>

runVars == <<point_file, idx, run_results, run_pc, ret>>

calibVars ==
    <<store, write_raw, ridx, results, pad, fit_results, fit_calls, calib_pc, written>>

writerVars == <<run_number, event_number_low, event_number_high, files, writer_pc>>

vars == <<padVars, runVars, calibVars, writerVars>>

\* ------------------------------------------------------------------ bounds
\* Number of pads of the model (NUM_CHANNELS is 10240 in the source).
NUM_CHANNELS == 3

\* Longest point cloud handed to pad_times in SpecPad.
MaxPoints == 3

\* Largest number of events (max_event - min_event + 1) of a run in SpecRun.
MaxEvents == 11

\* Largest number of runs of the range [run_min, run_max] in SpecCalib.
MaxRuns == 3

\* Largest event number handed to SpyralWriter_e20009.write in SpecWriter.
MaxEventNumber == 4

\* run_min of the configuration (line 18).
run_min == 373

Pads == 0 .. (NUM_CHANNELS - 1)

\* The variables of pulser_results while another routine is modelled.
RunIdle ==
    /\ point_file = [present |-> FALSE]
    /\ idx = 0
    /\ run_results = <<>>
    /\ run_pc = "idle"
    /\ ret = <<>>

\* The variables of time_correction_calculator while another routine is modelled.
CalibIdle ==
    /\ store = <<>>
    /\ write_raw = FALSE
    /\ ridx = 0
    /\ results = <<>>
    /\ pad = 0
    /\ fit_results = <<>>
    /\ fit_calls = <<>>
    /\ calib_pc = "idle"
    /\ written = <<>>

\* The variables of the writer while another routine is modelled.
WriterIdle ==
    /\ run_number = 0
    /\ event_number_low = 0
    /\ event_number_high = [set |-> FALSE, v |-> 0]
    /\ files = <<>>
    /\ writer_pc = "idle"

\* The variables of pad_times while another routine is modelled.
PadIdle ==
    /\ pc = <<>>
    /\ pos = 1
    /\ event_results = <<>>

\* ------------------------------------------------------------- pad_times
\* A row of a point cloud: column 5 is the pad id, column 6 the time bucket
\* (a float; here whole + half/2 with half \in {0,1}), column 3 the amplitude.
Point(p, w, h, a) == [pad |-> p, tb |-> <<w, h>>, amp |-> a]

\* int(point[6]): truncation of the float time bucket.
IntOf(t) == t[1]

\* Order of the raw (float) time buckets.
TbLeq(s, t) == s[1] < t[1] \/ (s[1] = t[1] /\ s[2] <= t[2])

\* np.zeros((NUM_CHANNELS, 3)) with column schema (time bucket, amplitude, hit)
ZeroRow == [tb |-> 0, amp |-> 0, hit |-> 0]

ZeroResults == [p \in Pads |-> ZeroRow]

\* The first-encounter test of pad_times, line 146: the stored time bucket is 0.
FirstTime(row) == row.tb = 0

\* The replacement test of pad_times, line 153.
Smaller(tb, row) == tb < row.tb

\* One iteration of the for loop of pad_times over a row `point`.
PadTimesPoint(er, point) ==
    LET pad_id == point.pad
        tb == IntOf(point.tb)
        amp == point.amp
    IN  IF FirstTime(er[pad_id])
        THEN [er EXCEPT ![pad_id] = [tb |-> tb, amp |-> amp, hit |-> 1]]
        ELSE IF Smaller(tb, er[pad_id])
             THEN [er EXCEPT ![pad_id] = [tb |-> tb, amp |-> amp, hit |-> @.hit]]
             ELSE er

\* pad_times(pc): the whole loop, as pulser_results calls it.
RECURSIVE PadTimesFrom(_, _, _)
PadTimesFrom(er, cloud, i) ==
    IF i > Len(cloud) THEN er
    ELSE PadTimesFrom(PadTimesPoint(er, cloud[i]), cloud, i + 1)

pad_times(cloud) == PadTimesFrom(ZeroResults, cloud, 1)

\* Sequences over S of length at most n.
SeqUpTo(S, n) == UNION {[1 .. k -> S] : k \in 0 .. n}

\* Rows offered to pad_times in SpecPad: two pads, time buckets 0, 0.5, 1, 2.
PadPoints ==
    {Point(p, t[1], t[2], a) :
        p \in {0, 1}, t \in {<<0, 0>>, <<0, 1>>, <<1, 0>>, <<2, 0>>}, a \in {1, 2}}

PadInit ==
    /\ pc \in SeqUpTo(PadPoints, MaxPoints)
    /\ pos = 1
    /\ event_results = ZeroResults
    /\ RunIdle
    /\ CalibIdle
    /\ WriterIdle

\* One pass of `for point in pc`.
PadTimesStep ==
    /\ pos <= Len(pc)
    /\ event_results' = PadTimesPoint(event_results, pc[pos])
    /\ pos' = pos + 1
    /\ UNCHANGED <<pc, runVars, calibVars, writerVars>>

PadNext == PadTimesStep

SpecPad == PadInit /\ [][PadNext]_vars

PadDone == pos > Len(pc)

\* Indices of the rows of pc on pad p.
RowsOf(p) == {i \in 1 .. Len(pc) : pc[i].pad = p}

\* Row i carries the smallest time bucket of its pad in the event.
IsMinRow(i) == \A j \in RowsOf(pc[i].pad) : TbLeq(pc[i].tb, pc[j].tb)

\* The first row of the event on the pad of row i with the time bucket of row i.
FirstAt(i) ==
    CHOOSE k \in RowsOf(pc[i].pad) :
        /\ pc[k].tb = pc[i].tb
        /\ \A j \in RowsOf(pc[i].pad) : pc[j].tb = pc[i].tb => k <= j

\* C1: after pad_times has processed every point of an event, the time bucket
\* recorded for a pad is never larger than the minimum time bucket among that
\* pad's points, and a pad with no points keeps the record (0, 0, 0).
C1_NeverAboveMinimum ==
    PadDone =>
        \A p \in Pads :
            /\ RowsOf(p) = {} => event_results[p] = ZeroRow
            /\ \A i \in RowsOf(p) : TbLeq(<<event_results[p].tb, 0>>, pc[i].tb)

\* C2: two points of one event on the same pad with equal time buckets but
\* different amplitudes, at the pad's minimum time bucket: the amplitude kept
\* for the pad is that of the first-encountered point at that time bucket.
C2_FirstSeenWinsTie ==
    PadDone =>
        \A i, j \in 1 .. Len(pc) :
            (/\ i < j
             /\ pc[i].pad = pc[j].pad
             /\ pc[i].tb = pc[j].tb
             /\ pc[i].amp # pc[j].amp
             /\ IsMinRow(i))
            => event_results[pc[i].pad].amp = pc[FirstAt(i)].amp

\* ------------------------------------------------------- numbers of numpy
\* The statistics of pulser_results are rational in the integer time buckets
\* and amplitudes; a number is an exact fraction <<numerator, denominator>> in
\* lowest terms with a positive denominator.
Abs(n) == IF n < 0 THEN -n ELSE n

RECURSIVE GCD(_, _)
GCD(a, b) == IF b = 0 THEN a ELSE GCD(b, a % b)

RNorm(n, d) ==
    LET g == GCD(Abs(n), Abs(d))
        sgn == IF d < 0 THEN -1 ELSE 1
    IN  IF n = 0 THEN <<0, 1>> ELSE <<(sgn * n) \div g, (sgn * d) \div g>>

R0 == <<0, 1>>

RAdd(a, b) == RNorm(a[1] * b[2] + b[1] * a[2], a[2] * b[2])

RSub(a, b) == RNorm(a[1] * b[2] - b[1] * a[2], a[2] * b[2])

RMul(a, b) == RNorm(a[1] * b[1], a[2] * b[2])

RDiv(a, b) == RNorm(a[1] * b[2], a[2] * b[1])

\* An entry of a (masked) float array: a finite number, nan, inf, or a masked
\* entry of a numpy.ma array.
Num(r) == [k |-> "num", v |-> r]

Masked == [k |-> "masked", v |-> R0]

NaN == [k |-> "nan", v |-> R0]

Inf == [k |-> "inf", v |-> R0]

\* Elementwise a + b, a - b, a * b of numpy.ma: masked where either is masked.
VArith(a, b, op) ==
    IF a.k = "masked" \/ b.k = "masked" THEN Masked
    ELSE IF a.k = "nan" \/ b.k = "nan" THEN NaN
    ELSE IF a.k = "inf" \/ b.k = "inf" THEN Inf
    ELSE Num(CASE op = "+" -> RAdd(a.v, b.v)
               [] op = "-" -> RSub(a.v, b.v)
               [] op = "*" -> RMul(a.v, b.v))

\* Elementwise a / b of numpy.ma: masked where either is masked or b is 0.
VDiv(a, b) ==
    IF a.k = "masked" \/ b.k = "masked" THEN Masked
    ELSE IF a.k = "nan" \/ b.k = "nan" THEN NaN
    ELSE IF b.k = "inf" THEN (IF a.k = "inf" THEN NaN ELSE Num(R0))
    ELSE IF a.k = "inf" THEN Inf
    ELSE IF b.v[1] = 0 THEN Masked
    ELSE Num(RDiv(a.v, b.v))

\* np.ma.sum over the pads: the sum of the unmasked entries, masked if none.
RECURSIVE MaSumTo(_, _)
MaSumTo(f, n) ==
    IF n = 0 THEN Masked
    ELSE LET rest == MaSumTo(f, n - 1)
             x == f[n - 1]
         IN  IF x.k = "masked" THEN rest
             ELSE IF rest.k = "masked" THEN x
             ELSE VArith(rest, x, "+")

MaSum(f) == MaSumTo(f, NUM_CHANNELS)

\* masked_array.filled(0.0)
Filled(x) == IF x.k = "masked" THEN Num(R0) ELSE x

\* Sum of the integers f[0], ..., f[n-1].
RECURSIVE SumIdx(_, _)
SumIdx(f, n) == IF n = 0 THEN 0 ELSE f[n - 1] + SumIdx(f, n - 1)

\* -------------------------------------------------------- pulser_results
\* Number of events of the run in which pad c has hit = 1 (line 82).
Hits(rr, n, c) == SumIdx([i \in 0 .. (n - 1) |-> rr[c][i].hit], n)

\* mask, line 82: np.sum(run_results[:, :, 2], axis=1) < 0.1 * num_events.
\* For num_events <= 12 the float product 0.1 * num_events compares with an
\* integer count exactly as num_events / 10 does.
MaskOfZeroHits(rr, n, c) == Hits(rr, n, c) = 0

MaskOf(rr, n, c) == 10 * Hits(rr, n, c) < n

TbSum(rr, n, c) == SumIdx([i \in 0 .. (n - 1) |-> rr[c][i].tb], n)

TbSqSum(rr, n, c) == SumIdx([i \in 0 .. (n - 1) |-> rr[c][i].tb * rr[c][i].tb], n)

AmpSum(rr, n, c) == SumIdx([i \in 0 .. (n - 1) |-> rr[c][i].amp], n)

\* pad_tb_avg, lines 83-87: the mask of pad_tb_ma is the pad's mask tiled over
\* the events, so the mean of an unmasked pad runs over all num_events columns.
PadTbAvg(rr, n) ==
    [c \in Pads |-> IF MaskOf(rr, n, c) THEN Masked ELSE Num(RNorm(TbSum(rr, n, c), n))]

\* scipy.stats.sem over the num_events columns (ddof = 1), squared:
\* (n * sum x^2 - (sum x)^2) / (n^2 (n - 1)); nan for a single column.
Sem2(rr, n, c) ==
    IF n = 1 THEN NaN
    ELSE Num(RNorm(n * TbSqSum(rr, n, c) - TbSum(rr, n, c) * TbSum(rr, n, c),
                   n * n * (n - 1)))

\* pad_tb_err, line 90, carried as its square.
PadTbErr2(rr, n) == [c \in Pads |-> IF MaskOf(rr, n, c) THEN Masked ELSE Sem2(rr, n, c)]

\* pad_tb_err**-2 of numpy.ma (np.ma.power): an entry whose result is not finite
\* (error 0 or nan) is masked. Argument and result in terms of the squared error.
MaPowNeg2Raw(e2) ==
    IF e2.k = "masked" THEN Masked
    ELSE IF e2.k # "num" THEN NaN
    ELSE IF e2.v[1] = 0 THEN Inf
    ELSE Num(RDiv(<<1, 1>>, e2.v))

MaPowNeg2(e2) ==
    IF e2.k # "num" THEN Masked
    ELSE IF e2.v[1] = 0 THEN Masked
    ELSE Num(RDiv(<<1, 1>>, e2.v))

\* pad_tb_err**2 of numpy.ma: a nan entry is masked.
MaPow2(e2) == IF e2.k # "num" THEN Masked ELSE e2

InvVar(rr, n) == [c \in Pads |-> MaPowNeg2(PadTbErr2(rr, n)[c])]

\* pad_tb_weights, line 93.
PadTbWeights(rr, n) ==
    LET iv == InvVar(rr, n)
        total == MaSum(iv)
    IN  [c \in Pads |-> VDiv(iv[c], total)]

\* np.ma.average(a, weights=w): the weights are masked where a is masked.
MaAverage(a, w) ==
    LET wgt == [c \in Pads |-> IF a[c].k = "masked" THEN Masked ELSE w[c]]
        scl == MaSum(wgt)
    IN  VDiv(MaSum([c \in Pads |-> VArith(a[c], wgt[c], "*")]), scl)

\* run_tb_avg, line 94.
RunTbAvg(rr, n) == MaAverage(PadTbAvg(rr, n), PadTbWeights(rr, n))

\* run_tb_err, line 95, carried as its square.
RunTbErr2(rr, n) == VDiv(Num(<<1, 1>>), MaSum(InvVar(rr, n)))

\* Lines 97-107: the rows (correction factor, squared error of the correction
\* factor, average amplitude) returned for the run.
Reduce(rr, n) ==
    LET avg == PadTbAvg(rr, n)
        err2 == PadTbErr2(rr, n)
        run_tb_avg == RunTbAvg(rr, n)
        run_tb_err2 == RunTbErr2(rr, n)
    IN  [c \in Pads |->
            [tb |-> Filled(VArith(run_tb_avg, avg[c], "-")),
             err2 |-> Filled(VArith(run_tb_err2, MaPow2(err2[c]), "+")),
             amp |-> IF MaskOf(rr, n, c) THEN Num(R0)
                     ELSE Num(RNorm(AmpSum(rr, n, c), n))]]

\* The return value None of the missing-file branch (line 51).
None == [none |-> TRUE, rows |-> <<>>]

\* Entries of the cloud group: a stored point cloud, or no dataset.
AbsentCloud == [stored |-> FALSE, rows |-> <<>>]

StoredCloud(c) == [stored |-> TRUE, rows |-> c]

\* No file for the run in the run-store.
MissingFile == [present |-> FALSE, min_event |-> 0, max_event |-> 0, clouds |-> <<>>]

\* A file whose cloud group holds st[1], st[2], ... for its first events and
\* no dataset for the later event numbers up to max_event.
RunFile(m, n, st) ==
    [present |-> TRUE, min_event |-> m, max_event |-> m + n - 1,
     clouds |-> [e \in m .. (m + n - 1) |->
                    IF e - m < Len(st) THEN st[e - m + 1] ELSE AbsentCloud]]

OneHit(p, w) == IF w = 0 THEN <<>> ELSE <<Point(p, w, 0, 2)>>

\* Point clouds of the runs of SpecRun: each of pads 0..2 silent or hit once at
\* time bucket 1 or 2, a pad hit twice, and a hit at time bucket 0.
RunClouds ==
    {OneHit(0, a) \o OneHit(1, b) \o OneHit(2, c) : a, b, c \in {0, 1, 2}}
    \cup {<<Point(0, 2, 0, 2), Point(0, 1, 1, 3)>>, <<Point(1, 0, 0, 2)>>}

StoredOptions == {AbsentCloud} \cup {StoredCloud(c) : c \in RunClouds}

RunFiles ==
    {MissingFile} \cup
    {RunFile(m, n, st) : m \in {0, 2}, n \in 1 .. MaxEvents, st \in [1 .. 2 -> StoredOptions]}

\* num_events, line 57.
NumEvents(file) == file.max_event - file.min_event + 1

num_events == NumEvents(point_file)

RunInit ==
    /\ point_file \in RunFiles
    /\ idx = 0
    /\ run_results = <<>>
    /\ run_pc = "open"
    /\ ret = <<>>
    /\ PadIdle
    /\ CalibIdle
    /\ WriterIdle

\* Lines 47-51: the file cannot be opened; the function prints and returns None.
RunOpenFail ==
    /\ run_pc = "open"
    /\ ~point_file.present
    /\ ret' = None
    /\ run_pc' = "done"
    /\ UNCHANGED <<point_file, idx, run_results, padVars, calibVars, writerVars>>

\* np.zeros((NUM_CHANNELS, num_events, 3)), line 60.
ZeroRun(n) == [c \in Pads |-> [i \in 0 .. (n - 1) |-> ZeroRow]]

\* Lines 53-60: read the bounds and allocate the result storage.
RunOpen ==
    /\ run_pc = "open"
    /\ point_file.present
    /\ run_results' = ZeroRun(num_events)
    /\ idx' = 0
    /\ run_pc' = "loop"
    /\ UNCHANGED <<point_file, ret, padVars, calibVars, writerVars>>

\* The index the loop of line 63 takes after idx; `found` tells whether the
\* event's dataset was there (`continue` on lines 70 and 73 when it is not).
NextIdxBreak(i, found) == IF found THEN i + 1 ELSE num_events

NextIdx(i, found) == i + 1

\* Lines 77-79: the columns of event index i.
Store(rr, i, er) == [c \in Pads |-> [rr[c] EXCEPT ![i] = er[c]]]

\* Lines 66-79 for event index i: run_results after the pass.
AfterEvent(file, rr, i) ==
    LET event == file.min_event + i
        cloud_data == file.clouds[event]
    IN  IF cloud_data.stored THEN Store(rr, i, pad_times(cloud_data.rows)) ELSE rr

\* Lines 63-79: one pass of the event loop.
RunEventStep ==
    /\ run_pc = "loop"
    /\ idx < num_events
    /\ run_results' = AfterEvent(point_file, run_results, idx)
    /\ idx' = NextIdx(idx, point_file.clouds[point_file.min_event + idx].stored)
    /\ UNCHANGED <<point_file, run_pc, ret, padVars, calibVars, writerVars>>

\* Lines 81-107: the loop is over; reduce and return.
RunReduce ==
    /\ run_pc = "loop"
    /\ idx >= num_events
    /\ ret' = [none |-> FALSE, rows |-> Reduce(run_results, num_events)]
    /\ run_pc' = "done"
    /\ UNCHANGED <<point_file, idx, run_results, padVars, calibVars, writerVars>>

RunNext == RunOpenFail \/ RunOpen \/ RunEventStep \/ RunReduce

SpecRun == RunInit /\ [][RunNext]_vars

RunReturned == run_pc = "done" /\ ~ret.none

\* Events (as loop indices) of the run in which pad c recorded a hit.
HitEvents(c) == {i \in 0 .. (num_events - 1) : run_results[c][i].hit = 1}

ZeroOut == [tb |-> Num(R0), err2 |-> Num(R0), amp |-> Num(R0)]

\* C3: a pad whose number of events with hit = 1 is less than 10% of the run's
\* event count has correction factor, its error and average amplitude all
\* exactly 0.0 in the rows the run returns.
C3_LowHitRateZeroed ==
    RunReturned =>
        \A c \in Pads :
            10 * Cardinality(HitEvents(c)) < num_events => ret.rows[c] = ZeroOut

\* C3 witness: a run returned in which a pad did record hits with amplitude,
\* but in fewer than 10% of the events.
C3_Witness ==
    /\ RunReturned
    /\ \E c \in Pads :
        /\ HitEvents(c) # {}
        /\ 10 * Cardinality(HitEvents(c)) < num_events
        /\ AmpSum(run_results, num_events, c) > 0
        /\ TbSum(run_results, num_events, c) > 0
    /\ \E c \in Pads : ret.rows[c].tb # Num(R0)

\* The run with pad z silenced: no hit of z in any event.
Without(rr, n, z) == [rr EXCEPT ![z] = [i \in 0 .. (n - 1) |-> ZeroRow]]

\* Pad z is valid (unmasked) in the run and its time-bucket error is exactly 0.
ZeroErrorPad(z) ==
    /\ 10 * Cardinality(HitEvents(z)) >= num_events
    /\ PadTbErr2(run_results, num_events)[z] = Num(R0)

\* C6: a valid pad with time-bucket error exactly 0 does not stop the run from
\* returning; the pad is excluded from the inverse-variance weights, every
\* other pad keeps the weight it has in the same run without that pad, and the
\* weights in use are finite and sum to 1.
C6_ZeroErrorExcluded ==
    RunReturned =>
        LET w == PadTbWeights(run_results, num_events)
        IN  \A z \in Pads :
                ZeroErrorPad(z) =>
                    /\ w[z] = Masked
                    /\ \A c \in Pads \ {z} :
                        /\ w[c].k \in {"num", "masked"}
                        /\ w[c] = PadTbWeights(Without(run_results, num_events, z), num_events)[c]
                    /\ MaSum(w) \in {Masked, Num(<<1, 1>>)}

\* C6 witness: a returned run with a valid zero-error pad and two other valid
\* pads of different finite weights.
C6_Witness ==
    /\ RunReturned
    /\ \E z, c, d \in Pads :
        /\ ZeroErrorPad(z)
        /\ PadTbWeights(run_results, num_events)[c].k = "num"
        /\ PadTbWeights(run_results, num_events)[d].k = "num"
        /\ PadTbWeights(run_results, num_events)[c] # PadTbWeights(run_results, num_events)[d]

\* What pad_times gives for the event of loop index i, zeros when the event
\* has no stored point cloud.
Expected(i) ==
    LET cd == point_file.clouds[point_file.min_event + i]
    IN  IF cd.stored THEN pad_times(cd.rows) ELSE ZeroResults

\* C7: an event number with no stored point cloud is skipped for all pads and
\* leaves the other events alone: every event already passed holds exactly
\* the records pad_times gives for its own cloud (zeros for a missing one),
\* and the loop goes on to the next event number until all are passed.
C7_MissingEventSkipped ==
    (run_pc \in {"loop", "done"} /\ point_file.present) =>
        /\ run_pc = "done" => idx = num_events
        /\ idx <= num_events
        /\ \A c \in Pads : \A i \in 0 .. (num_events - 1) :
            run_results[c][i] = IF i < idx THEN Expected(i)[c] ELSE ZeroRow

\* C7 witness: a finished run in which a missing event precedes an event with
\* a stored cloud that has hits.
C7_Witness ==
    /\ RunReturned
    /\ \E i, j \in 0 .. (num_events - 1) :
        /\ i < j
        /\ ~point_file.clouds[point_file.min_event + i].stored
        /\ point_file.clouds[point_file.min_event + j].stored
        /\ \E c \in Pads : run_results[c][j].hit = 1

\* C9: for every valid pad the mean time bucket is taken over the events in
\* which the pad recorded a hit only.
C9_MeanOverHitEvents ==
    RunReturned =>
        \A c \in Pads :
            ~MaskOf(run_results, num_events, c) =>
                PadTbAvg(run_results, num_events)[c]
                    = Num(RNorm(SumIdx([i \in 0 .. (num_events - 1) |->
                                            IF i \in HitEvents(c) THEN run_results[c][i].tb ELSE 0],
                                       num_events),
                                Cardinality(HitEvents(c))))

\* -------------------------------------------- time_correction_calculator
\* The event loop of pulser_results run to its end from event index i.
RECURSIVE RunLoopFrom(_, _, _)
RunLoopFrom(file, rr, i) ==
    IF i >= NumEvents(file) THEN rr
    ELSE RunLoopFrom(file, AfterEvent(file, rr, i),
                     NextIdx(i, file.clouds[file.min_event + i].stored))

\* pulser_results(workspace_path, run) as time_correction_calculator calls it.
pulser_results(file) ==
    IF ~file.present THEN None
    ELSE [none |-> FALSE,
          rows |-> Reduce(RunLoopFrom(file, ZeroRun(NumEvents(file)), 0), NumEvents(file))]

\* Point cloud files of the run-store of SpecCalib.
\* FileA: two events; pad 0 and pad 2 with finite errors, pad 1 with error 0.
FileA ==
    RunFile(0, 2, <<StoredCloud(OneHit(0, 1) \o OneHit(1, 1) \o OneHit(2, 2)),
                    StoredCloud(OneHit(0, 2) \o OneHit(1, 1))>>)

\* FileB: two events with hits on pad 0 only.
FileB == RunFile(0, 2, <<StoredCloud(OneHit(0, 1)), StoredCloud(OneHit(0, 2))>>)

\* FileC: eleven events, two stored; pad 1 hits in one event only (under 10%).
FileC ==
    RunFile(2, 11, <<StoredCloud(OneHit(0, 2) \o OneHit(1, 1)), StoredCloud(OneHit(0, 1))>>)

\* FileD: a single event.
FileD == RunFile(0, 1, <<StoredCloud(OneHit(0, 1) \o OneHit(1, 2))>>)

CalibFiles == {MissingFile, FileA, FileB, FileC, FileD}

CalibStores ==
    UNION {[run_min .. (run_min + k - 1) -> CalibFiles] : k \in 1 .. MaxRuns}

\* num_runs, line 196.
num_runs == Cardinality(DOMAIN store)

NaNRow == [tb |-> NaN, err2 |-> NaN, amp |-> NaN]

\* results[:, :, idx] = run_results, line 205; numpy casts None to nan.
AssignRun(res, i, rr) ==
    [c \in Pads |-> [res[c] EXCEPT ![i] = IF rr.none THEN NaNRow ELSE rr.rows[c]]]

\* np.sum(results[pad, 2, :]), line 211.
RECURSIVE AmpTotalTo(_, _, _)
AmpTotalTo(res, p, n) ==
    IF n = 0 THEN Num(R0) ELSE VArith(AmpTotalTo(res, p, n - 1), res[p][n - 1].amp, "+")

AmpTotal(res, p) == AmpTotalTo(res, p, num_runs)

\* The test of line 211 ("Don't fit bad pads"); nan == 0.0 is false.
BadPadAny(res, p) == \E i \in 0 .. (num_runs - 1) : res[p][i].amp = Num(R0)

BadPad(res, p) == AmpTotal(res, p) = Num(R0)

\* 1.0 / np.sqrt(error), line 215, of an error carried as its square e2:
\* inf for error 0 (a warning, no exception), nan for nan.
InvSqrt(e2) ==
    IF e2.k # "num" THEN NaN
    ELSE IF e2.v[1] = 0 THEN Inf
    ELSE [k |-> "invsqrt", v |-> e2.v]

\* Lines 215-216: the weight of one run-point.
FitWeightNoSubst(e2) == InvSqrt(e2)

FitWeight(e2) == IF e2 = Num(R0) THEN Num(<<1, 1>>) ELSE InvSqrt(e2)

NoCall == [called |-> FALSE, x |-> <<>>, data |-> <<>>, weights |-> <<>>]

\* The arguments of linear_fit.guess and linear_fit.fit, lines 217-227.
FitCall(res, p) ==
    [called |-> TRUE,
     x |-> [i \in 0 .. (num_runs - 1) |-> res[p][i].amp],
     data |-> [i \in 0 .. (num_runs - 1) |-> res[p][i].tb],
     weights |-> [i \in 0 .. (num_runs - 1) |-> FitWeight(res[p][i].err2)]]

\* lmfit (nan_policy "raise") raises on input that is not finite.
FitRaises(call) ==
    \E i \in DOMAIN call.x :
        \/ call.x[i].k \in {"nan", "inf"}
        \/ call.data[i].k \in {"nan", "inf"}
        \/ call.weights[i].k \in {"nan", "inf"}

ZeroFit == [slope |-> Num(R0), intercept |-> Num(R0)]

\* fit.params["slope"], fit.params["intercept"] of the call recorded for the
\* pad: values of the external least-squares routine, kept symbolic.
FitParams == [slope |-> [k |-> "slope", v |-> R0], intercept |-> [k |-> "intercept", v |-> R0]]

\* fmt="%.4f" of np.savetxt: a number rounded to 4 decimals.
Fmt4(x) ==
    IF x.k # "num" THEN x
    ELSE Num(RNorm((2 * 10000 * x.v[1] + x.v[2]) \div (2 * x.v[2]), 10000))

NotSaved == [saved |-> FALSE, data |-> <<>>]

CalibInit ==
    /\ store \in CalibStores
    /\ write_raw \in BOOLEAN
    /\ ridx = 0
    /\ results = [c \in Pads |-> [i \in 0 .. (Cardinality(DOMAIN store) - 1) |-> ZeroOut]]
    /\ fit_results = [c \in Pads |-> ZeroFit]
    /\ fit_calls = [c \in Pads |-> NoCall]
    /\ pad = 0
    /\ calib_pc = "runs"
    /\ written = [raw |-> NotSaved, fits |-> NotSaved]
    /\ PadIdle
    /\ RunIdle
    /\ WriterIdle

\* Lines 203-205: one pass of the run loop.
CalibRunStep ==
    /\ calib_pc = "runs"
    /\ ridx < num_runs
    /\ results' = AssignRun(results, ridx, pulser_results(store[run_min + ridx]))
    /\ ridx' = ridx + 1
    /\ UNCHANGED <<store, write_raw, pad, fit_results, fit_calls, calib_pc, written>>
    /\ UNCHANGED <<padVars, runVars, writerVars>>

\* The run loop is over; the fit loop of line 208 starts.
CalibRunsDone ==
    /\ calib_pc = "runs"
    /\ ridx >= num_runs
    /\ calib_pc' = "fit"
    /\ pad' = 0
    /\ UNCHANGED <<store, write_raw, ridx, results, fit_results, fit_calls, written>>
    /\ UNCHANGED <<padVars, runVars, writerVars>>

\* Lines 210-212: a bad pad is not fitted.
CalibSkipPad ==
    /\ calib_pc = "fit"
    /\ pad < NUM_CHANNELS
    /\ BadPad(results, pad)
    /\ pad' = pad + 1
    /\ UNCHANGED <<store, write_raw, ridx, results, fit_results, fit_calls, calib_pc, written>>
    /\ UNCHANGED <<padVars, runVars, writerVars>>

\* Lines 214-230: the pad is fitted.
CalibFitPad ==
    /\ calib_pc = "fit"
    /\ pad < NUM_CHANNELS
    /\ ~BadPad(results, pad)
    /\ ~FitRaises(FitCall(results, pad))
    /\ fit_calls' = [fit_calls EXCEPT ![pad] = FitCall(results, pad)]
    /\ fit_results' = [fit_results EXCEPT ![pad] = FitParams]
    /\ pad' = pad + 1
    /\ UNCHANGED <<store, write_raw, ridx, results, calib_pc, written>>
    /\ UNCHANGED <<padVars, runVars, writerVars>>

\* Lines 214-227: the fit raises and the exception leaves the function.
CalibFitRaise ==
    /\ calib_pc = "fit"
    /\ pad < NUM_CHANNELS
    /\ ~BadPad(results, pad)
    /\ FitRaises(FitCall(results, pad))
    /\ fit_calls' = [fit_calls EXCEPT ![pad] = FitCall(results, pad)]
    /\ calib_pc' = "raised"
    /\ UNCHANGED <<store, write_raw, ridx, results, pad, fit_results, written>>
    /\ UNCHANGED <<padVars, runVars, writerVars>>

\* Lines 232-235: the outputs are written.
CalibWrite ==
    /\ calib_pc = "fit"
    /\ pad >= NUM_CHANNELS
    /\ written' =
        [raw |-> IF write_raw THEN [saved |-> TRUE, data |-> results] ELSE NotSaved,
         fits |-> [saved |-> TRUE,
                   data |-> [c \in Pads |->
                                [slope |-> Fmt4(fit_results[c].slope),
                                 intercept |-> Fmt4(fit_results[c].intercept)]]]]
    /\ calib_pc' = "done"
    /\ UNCHANGED <<store, write_raw, ridx, results, pad, fit_results, fit_calls>>
    /\ UNCHANGED <<padVars, runVars, writerVars>>

CalibNext ==
    \/ CalibRunStep
    \/ CalibRunsDone
    \/ CalibSkipPad
    \/ CalibFitPad
    \/ CalibFitRaise
    \/ CalibWrite

SpecCalib == CalibInit /\ [][CalibNext]_vars

\* Run positions of the range [run_min, run_max].
RunPositions == 0 .. (num_runs - 1)

\* C4: a run of the range without a point cloud file does not make
\* time_correction_calculator fail: the run contributes zeros to the cross-run
\* table and no exception leaves the function.
C4_MissingRunSoft ==
    calib_pc \in {"runs", "fit", "done", "raised"} =>
        /\ calib_pc # "raised"
        /\ \A i \in RunPositions :
            (i < ridx /\ ~store[run_min + i].present) =>
                \A c \in Pads : results[c][i] = ZeroOut

\* C5: among the pads the fit loop has passed, a pad whose average amplitude
\* is zero in every run is not fitted and its fit, also as persisted, is
\* exactly (0, 0); a pad whose amplitude sum is not exactly 0 is fitted.
C5_SkipRule ==
    calib_pc \in {"fit", "done"} =>
        \A p \in Pads :
            p < pad =>
                /\ (\A i \in RunPositions : results[p][i].amp = Num(R0)) =>
                    /\ ~fit_calls[p].called
                    /\ fit_results[p] = ZeroFit
                    /\ calib_pc = "done" => written.fits.data[p] = ZeroFit
                /\ AmpTotal(results, p) # Num(R0) => fit_calls[p].called

\* C5 witness: the fits are written, with a pad of zero amplitude in every run
\* skipped and a pad of zero amplitude in some runs only fitted.
C5_Witness ==
    /\ calib_pc = "done"
    /\ \E p, q \in Pads :
        /\ \A i \in RunPositions : results[p][i].amp = Num(R0)
        /\ written.fits.data[p] = ZeroFit
        /\ \E i, j \in RunPositions :
            /\ results[q][i].amp = Num(R0)
            /\ results[q][j].amp # Num(R0)
        /\ fit_calls[q].called
        /\ written.fits.data[q] # ZeroFit

\* C10: in every call of the fit, the weight of a run-point is exactly 1.0
\* when its correction-factor error is 0 and 1/sqrt(error) otherwise; a
\* zero-error point has a finite weight, and a call does not raise unless one
\* of its points is nan.
C10_FitWeights ==
    \A p \in DOMAIN fit_calls :
        fit_calls[p].called =>
            /\ \A i \in RunPositions :
                LET e2 == results[p][i].err2
                    w == fit_calls[p].weights[i]
                IN  /\ e2 = Num(R0) => w = Num(<<1, 1>>)
                    /\ (e2.k = "num" /\ e2 # Num(R0)) => w = [k |-> "invsqrt", v |-> e2.v]
                    /\ e2.k = "nan" => w = NaN
            /\ (calib_pc = "raised" /\ p = pad) =>
                \E i \in RunPositions : results[p][i].err2.k = "nan"

\* C10 witness: a fit that went through on a pad with a zero-error run-point
\* (a run in which the pad was masked) and a run-point of nonzero error.
C10_Witness ==
    /\ calib_pc = "done"
    /\ \E p \in Pads : \E i, j \in RunPositions :
        /\ fit_calls[p].called
        /\ results[p][i] = ZeroOut
        /\ fit_calls[p].weights[i] = Num(<<1, 1>>)
        /\ fit_calls[p].weights[j].k = "invsqrt"

\* ------------------------------------------------- SpyralWriter_e20009
\* A point cloud file just created: an empty "cloud" group without attributes.
EmptyFile ==
    [events |-> <<>>, attrs |-> [set |-> FALSE, min_event |-> 0, max_event |-> 0]]

\* create_file, lines 59-67, for the run number rn it moves to.
CreateFile(fs, rn) == fs @@ (rn :> EmptyFile)

\* The attributes set_number_of_events writes to the cloud group of file rn.
SetAttrs(fs, rn, lo, hi) ==
    [fs EXCEPT ![rn].attrs = [set |-> TRUE, min_event |-> lo, max_event |-> hi]]

\* __init__, lines 51-57: run_number 0, event_number_low 0, then create_file.
WriterInit ==
    /\ run_number = 1
    /\ event_number_low = 0
    /\ event_number_high = [set |-> FALSE, v |-> 0]
    /\ files = CreateFile(<<>>, 1)
    /\ writer_pc = "writing"
    /\ PadIdle
    /\ RunIdle
    /\ CalibIdle

\* Event numbers come from the kinematics file: the first is 0 (line 56) and
\* they increase.
NextEventNumbers ==
    IF event_number_high.set
    THEN {e \in 0 .. MaxEventNumber : e > event_number_high.v}
    ELSE {0}

\* write, lines 83-114, when the file stays within max_file_size.
WriterWrite ==
    /\ writer_pc = "writing"
    /\ \E event_number \in NextEventNumbers :
        /\ event_number_high' = [set |-> TRUE, v |-> event_number]
        /\ files' = [files EXCEPT ![run_number].events = Append(@, event_number)]
    /\ UNCHANGED <<run_number, event_number_low, writer_pc>>
    /\ UNCHANGED <<padVars, runVars, calibVars>>

\* write, lines 83-114, when the file has grown past max_file_size:
\* set_number_of_events and create_file run inside the call (lines 102-104).
WriterWriteRollover ==
    /\ writer_pc = "writing"
    /\ \E event_number \in NextEventNumbers :
        /\ event_number_high' = [set |-> TRUE, v |-> event_number]
        /\ files' =
            CreateFile(
                SetAttrs([files EXCEPT ![run_number].events = Append(@, event_number)],
                         run_number, event_number_low, event_number),
                run_number + 1)
        /\ event_number_low' = event_number
    /\ run_number' = run_number + 1
    /\ UNCHANGED writer_pc
    /\ UNCHANGED <<padVars, runVars, calibVars>>

\* set_number_of_events, lines 116-123, called when the simulation is over.
WriterSetNumberOfEvents ==
    /\ writer_pc = "writing"
    /\ event_number_high.set
    /\ files' = SetAttrs(files, run_number, event_number_low, event_number_high.v)
    /\ event_number_low' = event_number_high.v
    /\ writer_pc' = "finished"
    /\ UNCHANGED <<run_number, event_number_high>>
    /\ UNCHANGED <<padVars, runVars, calibVars>>

WriterNext == WriterWrite \/ WriterWriteRollover \/ WriterSetNumberOfEvents

SpecWriter == WriterInit /\ [][WriterNext]_vars

\* C8: in every file whose cloud group got its attributes from
\* set_number_of_events, min_event is the first event number written to that
\* file and max_event the last one.
C8_BoundsAreFirstAndLast ==
    \A rn \in DOMAIN files :
        (files[rn].attrs.set /\ files[rn].events # <<>>) =>
            /\ files[rn].attrs.min_event = files[rn].events[1]
            /\ files[rn].attrs.max_event = files[rn].events[Len(files[rn].events)]

====
